---- MODULE Spec2Model ----
(***************************************************************************)
(* A model of istoria-ai: the Daylio and Obsidian importers, the memory    *)
(* store (importData / getAllMemories) and the NotebookLM exporter.        *)
(*                                                                         *)
(* Text is a sequence of atoms.  A digit or a punctuation character the    *)
(* code inspects is one atom of its own ("2", "-", ".", "/", " ", "\n");   *)
(* a run of letters the code never looks into is one atom ("Daylio",       *)
(* "Meh", "note1").  Concatenation is \o.                                  *)
(*                                                                         *)
(* An instant is a number of minutes since 1970-01-01T00:00Z (the code's   *)
(* millisecond epoch divided by 60000: every instant of the model is a     *)
(* whole minute); a zone offset is a number of minutes east of UTC.  The   *)
(* Daylio field timeZoneOffset keeps its unit, milliseconds.               *)
(***************************************************************************)
EXTENDS Integers, Sequences, FiniteSets, TLC

VARIABLES
    archive,     \* the .daylio archive handed to importDaylioBackup
    memories,    \* the NewMemory[] an importer returned
    status,      \* "idle" before the call, then "ok" or "error"
    moodArgs,    \* the arguments of a getMoodName call
    moodResult,  \* what getMoodName returned for them
    vault,       \* the files under rootDir, in directory-traversal order
    localZone,   \* the offset of the system's local zone
    store,       \* the rows of the memory table, in insertion order
    fetched,     \* the Memory[] the last getAllMemories returned
    outFiles,    \* the files of outputDir: path -> content
    writes,      \* the writeFile calls of the export, in order
    interval,    \* the interval argument of the export
    pc,          \* where the run of the CLI stands
    options,     \* which of --obsidian and --daylio the run was given
    code,        \* the value the promise of main().catch(...) settles to
    exitCode,    \* the status the process exited with
    events,      \* what the run did so far, in order
    runs,        \* how many runs of the CLI were started on the database
    committed    \* the batches of the imports that succeeded, in order

importVars == <<archive, memories, moodArgs, moodResult, vault>>

storeVars == <<store, fetched, outFiles, writes, interval>>

cliVars == <<pc, options, code, exitCode, events, runs, committed>>

vars == <<archive, memories, status, moodArgs, moodResult, vault, localZone,
          store, fetched, outFiles, writes, interval,
          pc, options, code, exitCode, events, runs, committed>>

(***************************************************************************)
(* Bounds of the model.                                                    *)
(***************************************************************************)
MaxEntries == 3
MaxMoods == 2
MaxFiles == 2
MaxStore == 3
MaxRuns == 2

(***************************************************************************)
(* Text helpers.                                                           *)
(***************************************************************************)
DigitAtoms == <<"0", "1", "2", "3", "4", "5", "6", "7", "8", "9">>

IsDigit(a) ==
    \E i \in 1..10 : DigitAtoms[i] = a

DigitValue(a) ==
    (CHOOSE i \in 1..10 : DigitAtoms[i] = a) - 1

RECURSIVE NatToText(_)
NatToText(n) ==
    IF n < 10 THEN <<DigitAtoms[n + 1]>>
    ELSE NatToText(n \div 10) \o <<DigitAtoms[(n % 10) + 1]>>

\* String(n) / `${n}` of an integer
IntToText(n) ==
    IF n < 0 THEN <<"-">> \o NatToText(-n) ELSE NatToText(n)

RECURSIVE padStart(_, _, _)
padStart(s, targetLength, fill) ==
    IF Len(s) >= targetLength THEN s
    ELSE padStart(<<fill>> \o s, targetLength, fill)

RECURSIVE TextToNat(_)
TextToNat(s) ==
    IF s = <<>> THEN 0
    ELSE TextToNat(SubSeq(s, 1, Len(s) - 1)) * 10 + DigitValue(s[Len(s)])

RECURSIVE Join(_, _)
Join(parts, sep) ==
    IF parts = <<>> THEN <<>>
    ELSE IF Len(parts) = 1 THEN parts[1]
    ELSE parts[1] \o sep \o Join(Tail(parts), sep)

RECURSIVE TrimStart(_)
TrimStart(s) ==
    IF s # <<>> /\ s[1] \in {" ", "\n"} THEN TrimStart(Tail(s)) ELSE s

RECURSIVE TrimEnd(_)
TrimEnd(s) ==
    IF s # <<>> /\ s[Len(s)] \in {" ", "\n"}
    THEN TrimEnd(SubSeq(s, 1, Len(s) - 1)) ELSE s

\* String.prototype.trim
trim(s) ==
    TrimEnd(TrimStart(s))

RECURSIVE SplitOn(_, _)
SplitOn(s, sep) ==
    IF \A i \in 1..Len(s) : s[i] # sep THEN <<s>>
    ELSE LET i == CHOOSE k \in 1..Len(s) :
                    s[k] = sep /\ \A l \in 1..(k - 1) : s[l] # sep
         IN  <<SubSeq(s, 1, i - 1)>> \o SplitOn(SubSeq(s, i + 1, Len(s)), sep)

StartsWith(s, prefix) ==
    Len(s) >= Len(prefix) /\ SubSeq(s, 1, Len(prefix)) = prefix

EndsWith(s, suffix) ==
    Len(s) >= Len(suffix) /\ SubSeq(s, Len(s) - Len(suffix) + 1, Len(s)) = suffix

(***************************************************************************)
(* Calendar arithmetic of the proleptic Gregorian calendar, as luxon       *)
(* computes a civil date from an instant and back.                         *)
(***************************************************************************)
DaysFromCivil(y, m, d) ==
    LET yy  == IF m <= 2 THEN y - 1 ELSE y
        era == yy \div 400
        yoe == yy - era * 400
        mp  == IF m > 2 THEN m - 3 ELSE m + 9
        doy == (153 * mp + 2) \div 5 + d - 1
        doe == yoe * 365 + yoe \div 4 - yoe \div 100 + doy
    IN  era * 146097 + doe - 719468

CivilFromDays(days) ==
    LET z   == days + 719468
        era == z \div 146097
        doe == z - era * 146097
        yoe == (doe - doe \div 1460 + doe \div 36524 - doe \div 146096) \div 365
        doy == doe - (365 * yoe + yoe \div 4 - yoe \div 100)
        mp  == (5 * doy + 2) \div 153
        d   == doy - (153 * mp + 2) \div 5 + 1
        m   == IF mp < 10 THEN mp + 3 ELSE mp - 9
        y   == yoe + era * 400 + (IF m <= 2 THEN 1 ELSE 0)
    IN  [year |-> y, month |-> m, day |-> d]

DaysInMonth(y, m) ==
    IF m = 2
    THEN (IF (y % 4 = 0 /\ y % 100 # 0) \/ y % 400 = 0 THEN 29 ELSE 28)
    ELSE IF m \in {4, 6, 9, 11} THEN 30 ELSE 31

\* the civil fields a valid DateTime shows in the zone it carries
Civil(dt) ==
    LET local == dt.ts + dt.offset
        c     == CivilFromDays(local \div 1440)
    IN  [year |-> c.year, month |-> c.month, day |-> c.day,
         hour |-> (local % 1440) \div 60, minute |-> local % 60]

(***************************************************************************)
(* luxon DateTime: [valid, ts, offset].  toMillis() of an invalid DateTime *)
(* is NaN: a number is [nan, value].                                       *)
(***************************************************************************)
Num(v) ==
    [nan |-> FALSE, value |-> v]

NaN ==
    [nan |-> TRUE, value |-> 0]

toMillis(dt) ==
    IF dt.valid THEN Num(dt.ts) ELSE NaN

\* a - b of two numbers
Minus(a, b) ==
    IF a.nan \/ b.nan THEN NaN ELSE Num(a.value - b.value)

\* FixedOffsetZone.parseSpecifier: /^utc(?:([+-]\d{1,2})(?::(\d{2}))?)?$/i
\* gives the offset in minutes when the specifier matches
parseSpecifier(zone) ==
    IF zone = <<"UTC">> THEN [matched |-> TRUE, offset |-> 0]
    ELSE IF /\ Len(zone) \in {3, 4}
            /\ zone[1] = "UTC"
            /\ zone[2] \in {"+", "-"}
            /\ \A i \in 3..Len(zone) : IsDigit(zone[i])
         THEN LET h == TextToNat(SubSeq(zone, 3, Len(zone)))
              IN  [matched |-> TRUE,
                   offset |-> IF zone[2] = "-" THEN -(h * 60) ELSE h * 60]
    ELSE IF /\ Len(zone) \in {6, 7}
            /\ zone[1] = "UTC"
            /\ zone[2] \in {"+", "-"}
            /\ zone[Len(zone) - 2] = ":"
            /\ \A i \in (3..Len(zone)) \ {Len(zone) - 2} : IsDigit(zone[i])
         THEN LET h == TextToNat(SubSeq(zone, 3, Len(zone) - 3))
                  m == TextToNat(SubSeq(zone, Len(zone) - 1, Len(zone)))
              IN  [matched |-> TRUE,
                   offset |-> IF zone[2] = "-" THEN -(h * 60 + m) ELSE h * 60 + m]
    ELSE [matched |-> FALSE, offset |-> 0]

\* DateTime.fromMillis(ts, { zone }): a zone name that is no UTC specifier
\* (and no IANA name) gives an invalid DateTime
fromMillis(ts, zone) ==
    LET z == parseSpecifier(zone)
    IN  [valid |-> z.matched, ts |-> ts, offset |-> z.offset]

(***************************************************************************)
(* Daylio importer (src/src/importers/daylio-import.ts).                   *)
(***************************************************************************)
Unknown == <<"Unknown">>

PREDEFINED_MOOD_NAMES ==
    <<"Rad", "Good", "Meh", "Bad", "Awful">>

\* a JS Map as the sequence of its [key, value] pairs in insertion order
MapHas(map, k) ==
    \E i \in 1..Len(map) : map[i].key = k

MapGet(map, k) ==
    map[CHOOSE i \in 1..Len(map) : map[i].key = k].value

MapSet(map, k, v) ==
    IF MapHas(map, k)
    THEN [i \in 1..Len(map) |->
            IF map[i].key = k THEN [key |-> k, value |-> v] ELSE map[i]]
    ELSE Append(map, [key |-> k, value |-> v])

RECURSIVE BuildMoodLookup(_, _)
BuildMoodLookup(customMoods, map) ==
    IF customMoods = <<>> THEN map
    ELSE BuildMoodLookup(Tail(customMoods),
                         MapSet(map, customMoods[1].id, customMoods[1]))

RECURSIVE BuildTagLookup(_, _)
BuildTagLookup(tags, map) ==
    IF tags = <<>> THEN map
    ELSE BuildTagLookup(Tail(tags), MapSet(map, tags[1].id, tags[1].name))

\* (mutant) the custom name is not trimmed before it is tested
HasCustomNameUntrimmed(mood) ==
    mood.custom_name # <<>>

\* mood.custom_name && mood.custom_name.trim()
HasCustomName(mood) ==
    mood.custom_name # <<>> /\ trim(mood.custom_name) # <<>>

getMoodName(moodId, moodLookup) ==
    IF ~MapHas(moodLookup, moodId) THEN Unknown
    ELSE LET mood == MapGet(moodLookup, moodId)
         IN  IF HasCustomName(mood) THEN mood.custom_name
             ELSE IF mood.predefined_name_id \in 1..Len(PREDEFINED_MOOD_NAMES)
                  THEN <<PREDEFINED_MOOD_NAMES[mood.predefined_name_id]>>
                  ELSE Unknown

\* (mutant) an unknown tag is kept under the placeholder name
RECURSIVE TagNamesPlaceholder(_, _)
TagNamesPlaceholder(tagIds, tagLookup) ==
    IF tagIds = <<>> THEN <<>>
    ELSE <<IF MapHas(tagLookup, tagIds[1])
           THEN MapGet(tagLookup, tagIds[1]) ELSE Unknown>>
         \o TagNamesPlaceholder(Tail(tagIds), tagLookup)

RECURSIVE TagNames(_, _)
TagNames(tagIds, tagLookup) ==
    IF tagIds = <<>> THEN <<>>
    ELSE (IF MapHas(tagLookup, tagIds[1])
          THEN <<MapGet(tagLookup, tagIds[1])>> ELSE <<>>)
         \o TagNames(Tail(tagIds), tagLookup)

formatEntry(entry, moodLookup, tagLookup) ==
    LET moodName == getMoodName(entry.mood, moodLookup)
        tagNames == TagNames(entry.tags, tagLookup)
        line     == moodName \o <<":", " ">> \o entry.note
    IN  trim(IF Len(tagNames) > 0
             THEN line \o <<" ", "(">> \o Join(tagNames, <<",", " ">>) \o <<")">>
             ELSE line)

\* (mutant) the 0-indexed month is used as it is
DayKeyOfZeroIndexed(entry) ==
    IntToText(entry.year) \o <<"-">>
      \o padStart(IntToText(entry.month), 2, "0") \o <<"-">>
      \o padStart(IntToText(entry.day), 2, "0")

\* `${entry.year}-${String(entry.month + 1).padStart(2, '0')}-${String(entry.day).padStart(2, '0')}`
DayKeyOf(entry) ==
    IntToText(entry.year) \o <<"-">>
      \o padStart(IntToText(entry.month + 1), 2, "0") \o <<"-">>
      \o padStart(IntToText(entry.day), 2, "0")

\* (mutant) an entry replaces the entries its day already has
RECURSIVE GroupByDayLast(_, _)
GroupByDayLast(dayEntries, entriesByDay) ==
    IF dayEntries = <<>> THEN entriesByDay
    ELSE GroupByDayLast(Tail(dayEntries),
                        MapSet(entriesByDay, DayKeyOf(dayEntries[1]),
                               <<dayEntries[1]>>))

RECURSIVE GroupByDay(_, _)
GroupByDay(dayEntries, entriesByDay) ==
    IF dayEntries = <<>> THEN entriesByDay
    ELSE LET entry    == dayEntries[1]
             dayKey   == DayKeyOf(entry)
             existing == IF MapHas(entriesByDay, dayKey)
                         THEN MapGet(entriesByDay, dayKey) ELSE <<>>
         IN  GroupByDay(Tail(dayEntries),
                        MapSet(entriesByDay, dayKey, Append(existing, entry)))

\* (mutant) the minutes are left out of the comparison
CompareEntriesByHour(a, b) ==
    a.hour - b.hour

\* the comparator of entries.sort: timeA - timeB
CompareEntries(a, b) ==
    (a.hour * 60 + a.minute) - (b.hour * 60 + b.minute)

\* Array.prototype.sort is stable: an element goes behind every element
\* the comparator does not place after it
RECURSIVE InsertEntry(_, _)
InsertEntry(sorted, e) ==
    IF sorted = <<>> THEN <<e>>
    ELSE IF CompareEntries(sorted[1], e) <= 0
         THEN <<sorted[1]>> \o InsertEntry(Tail(sorted), e)
         ELSE <<e>> \o sorted

RECURSIVE SortEntries(_, _)
SortEntries(entries, sorted) ==
    IF entries = <<>> THEN sorted
    ELSE SortEntries(Tail(entries), InsertEntry(sorted, entries[1]))

\* Math.round(timeZoneOffset / 60000): halves round up
OffsetMinutes(timeZoneOffset) ==
    (timeZoneOffset + 30000) \div 60000

\* `${offsetMinutes / 60}`: a quotient that is no integer prints with a
\* decimal point and its fraction digits (one atom, "frac")
HoursText(offsetMinutes) ==
    IF offsetMinutes % 60 = 0 THEN IntToText(offsetMinutes \div 60)
    ELSE LET a == IF offsetMinutes < 0 THEN -offsetMinutes ELSE offsetMinutes
         IN  (IF offsetMinutes < 0 THEN <<"-">> ELSE <<>>)
               \o NatToText(a \div 60) \o <<".", "frac">>

\* `UTC${offsetMinutes >= 0 ? '+' : ''}${offsetMinutes / 60}`
ZoneName(offsetMinutes) ==
    <<"UTC">> \o (IF offsetMinutes >= 0 THEN <<"+">> ELSE <<>>)
      \o HoursText(offsetMinutes)

MemoryCreatedAtOf(firstEntry) ==
    fromMillis(firstEntry.datetime,
               ZoneName(OffsetMinutes(firstEntry.timeZoneOffset)))

RECURSIVE FormatLines(_, _, _)
FormatLines(entries, moodLookup, tagLookup) ==
    IF entries = <<>> THEN <<>>
    ELSE <<formatEntry(entries[1], moodLookup, tagLookup)>>
           \o FormatLines(Tail(entries), moodLookup, tagLookup)

\* one iteration of `for (const [dayKey, entries] of entriesByDay)`
DayMemory(dayKey, dayEntries, moodLookup, tagLookup) ==
    LET entries == SortEntries(dayEntries, <<>>)
        lines   == FormatLines(entries, moodLookup, tagLookup)
    IN  [source |-> <<"daylio">>,
         memoryCreatedAt |-> MemoryCreatedAtOf(entries[1]),
         title |-> <<"Daylio", ":", " ">> \o dayKey,
         metadata |-> [entryCount |-> IntToText(Len(entries)), dayKey |-> dayKey],
         content |-> Join(lines, <<"\n">>)]

RECURSIVE DayMemories(_, _, _)
DayMemories(entriesByDay, moodLookup, tagLookup) ==
    IF entriesByDay = <<>> THEN <<>>
    ELSE (IF entriesByDay[1].value = <<>> THEN <<>>
          ELSE <<DayMemory(entriesByDay[1].key, entriesByDay[1].value,
                           moodLookup, tagLookup)>>)
         \o DayMemories(Tail(entriesByDay), moodLookup, tagLookup)

\* the comparator of memories.sort: dateA.toMillis() - dateB.toMillis()
CompareMemories(a, b) ==
    Minus(toMillis(a.memoryCreatedAt), toMillis(b.memoryCreatedAt))

\* SortCompare: a comparator result of NaN counts as +0
CompareMemoriesValue(a, b) ==
    LET v == CompareMemories(a, b)
    IN  IF v.nan THEN 0 ELSE v.value

RECURSIVE InsertMemory(_, _)
InsertMemory(sorted, m) ==
    IF sorted = <<>> THEN <<m>>
    ELSE IF CompareMemoriesValue(sorted[1], m) <= 0
         THEN <<sorted[1]>> \o InsertMemory(Tail(sorted), m)
         ELSE <<m>> \o sorted

RECURSIVE StableSortMemories(_, _)
StableSortMemories(list, sorted) ==
    IF list = <<>> THEN sorted
    ELSE StableSortMemories(Tail(list), InsertMemory(sorted, list[1]))

\* ECMAScript: the comparator is consistent when "equal" is transitive and
\* agrees with "less"; with NaN results it is not once two elements it tells
\* apart both compare equal to a third
ConsistentComparator(list) ==
    \A i, j, k \in 1..Len(list) :
        (CompareMemoriesValue(list[i], list[j]) = 0
           /\ CompareMemoriesValue(list[j], list[k]) = 0)
        => CompareMemoriesValue(list[i], list[k]) = 0

Reorderings(list) ==
    {[i \in 1..Len(list) |-> list[p[i]]] :
        p \in {q \in [1..Len(list) -> 1..Len(list)] :
                 \A i, j \in 1..Len(list) : i # j => q[i] # q[j]}}

\* memories.sort(...): the stable sorted order, or, when the comparator is
\* not consistent, an order the implementation chooses
SortMemoriesOutcomes(list) ==
    IF ConsistentComparator(list) THEN {StableSortMemories(list, <<>>)}
    ELSE Reorderings(list)

\* what the archive must hold for the import to get past parsing
ArchiveShapes ==
    {"ok", "noBackupFile", "badBase64", "badJson", "noDayEntries",
     "noCustomMoods", "noTags"}

\* the values importDaylioBackup can return for an archive
importDaylioBackup(a) ==
    LET moodLookup   == BuildMoodLookup(a.customMoods, <<>>)
        tagLookup    == BuildTagLookup(a.tags, <<>>)
        entriesByDay == GroupByDay(a.dayEntries, <<>>)
    IN  SortMemoriesOutcomes(DayMemories(entriesByDay, moodLookup, tagLookup))

\* how a call ends: it threw, or it returned a value
Thrown ==
    [threw |-> TRUE, value |-> <<>>]

Returned(v) ==
    [threw |-> FALSE, value |-> v]

\* extractDaylioBackup: throws when the archive has no backup.daylio entry
\* and when atob rejects its text; else returns the decoded document
extractDaylioBackup(a) ==
    IF a.shape = "noBackupFile" THEN Thrown
    ELSE IF a.shape = "badBase64" THEN Thrown
    ELSE Returned(a)

\* parseDaylioJson: JSON.parse throws on text that is no JSON; a document
\* whose dayEntries is no array is rejected
parseDaylioJson(jsonContent) ==
    IF jsonContent.shape = "badJson" THEN Thrown
    ELSE IF jsonContent.shape = "noDayEntries" THEN Thrown
    ELSE Returned(jsonContent)

\* (mutant) a document without customMoods is read as one with none
customMoodsOrEmpty(backup) ==
    Returned(IF backup.shape = "noCustomMoods" THEN <<>> ELSE backup.customMoods)

\* backup.customMoods.length: a TypeError when the document has no
\* customMoods
customMoodsOf(backup) ==
    IF backup.shape = "noCustomMoods" THEN Thrown
    ELSE Returned(backup.customMoods)

\* backup.tags.length: a TypeError when the document has no tags
tagsOf(backup) ==
    IF backup.shape = "noTags" THEN Thrown ELSE Returned(backup.tags)

\* the ways a call of importDaylioBackup can end for an archive
importDaylioBackupCall(a) ==
    IF extractDaylioBackup(a).threw THEN {Thrown}
    ELSE IF parseDaylioJson(extractDaylioBackup(a).value).threw THEN {Thrown}
    ELSE IF customMoodsOf(a).threw THEN {Thrown}
    ELSE IF tagsOf(a).threw THEN {Thrown}
    ELSE {Returned(m) :
            m \in importDaylioBackup(
                     [a EXCEPT !.customMoods = customMoodsOf(a).value,
                               !.tags = tagsOf(a).value])}

(***************************************************************************)
(* Archives of the model.                                                  *)
(***************************************************************************)
\* a day entry as the Daylio app writes it: datetime is the instant of the
\* entry's civil time in the zone of timeZoneOffset
MkEntry(id, y, m0, d, h, mi, offMs, mood, note, tags) ==
    [id |-> id, year |-> y, month |-> m0, day |-> d, hour |-> h, minute |-> mi,
     datetime |-> DaysFromCivil(y, m0 + 1, d) * 1440 + h * 60 + mi
                    - offMs \div 60000,
     timeZoneOffset |-> offMs, mood |-> mood, note |-> note, tags |-> tags]

EntryPool ==
    { MkEntry(1, 2025, 8, 11, 14, 0, 7200000, 1, <<"note1">>, <<1, 2>>),
      MkEntry(2, 2025, 8, 11, 9, 45, 7200000, 2, <<"note2">>, <<9, 1>>),
      MkEntry(3, 2025, 8, 11, 9, 30, 7200000, 7, <<"note3">>, <<>>),
      MkEntry(4, 2025, 8, 11, 9, 30, 7200000, 3, <<>>, <<9>>),
      MkEntry(5, 2025, 8, 12, 0, 30, 50400000, 1, <<"note5">>, <<2>>),
      MkEntry(6, 2025, 8, 11, 23, 0, -28800000, 2, <<"note6">>, <<>>),
      MkEntry(7, 2025, 0, 5, 8, 0, 19800000, 1, <<"note7">>, <<1>>),
      MkEntry(8, 2024, 11, 31, 22, 15, 0, 2, <<"note8">>, <<2, 9, 1>>) }

ModelMoods ==
    << [id |-> 1, custom_name |-> <<"Happy">>, predefined_name_id |-> 3],
       [id |-> 2, custom_name |-> <<>>, predefined_name_id |-> 3],
       [id |-> 3, custom_name |-> <<" ">>, predefined_name_id |-> 2] >>

ModelTags ==
    << [id |-> 1, name |-> <<"work">>], [id |-> 2, name |-> <<"gym">>] >>

InjectiveSeqs(S, n) ==
    UNION {{s \in [1..k -> S] : \A i, j \in 1..k : i # j => s[i] # s[j]} :
             k \in 0..n}

Archives ==
    [shape : ArchiveShapes, customMoods : {ModelMoods}, tags : {ModelTags},
     dayEntries : InjectiveSeqs(EntryPool, MaxEntries)]

MoodDefs ==
    [id : {1, 2}, custom_name : {<<>>, <<"Happy">>, <<" ">>},
     predefined_name_id : 0..6]

MoodTables ==
    UNION {[1..k -> MoodDefs] : k \in 0..MaxMoods}

(***************************************************************************)
(* Obsidian importer (src/src/importers/daylio-import.ts, lines 236-363).  *)
(***************************************************************************)
DigitsAt(s, i, n) ==
    i + n - 1 <= Len(s) /\ \A k \in i..(i + n - 1) : IsDigit(s[k])

\* the position behind an optional character
SkipOptional(s, i, c) ==
    IF i <= Len(s) /\ s[i] = c THEN i + 1 ELSE i

RECURSIVE SkipDigits(_, _)
SkipDigits(s, i) ==
    IF i <= Len(s) /\ IsDigit(s[i]) THEN SkipDigits(s, i + 1) ELSE i

\* (?:Z|[+-]\d{2}:?\d{2})? at pZone: "Z", "offset" or "none" (not there)
ZoneAt(s, pZone, pOffMin) ==
    IF pZone <= Len(s) /\ s[pZone] = "Z" THEN "Z"
    ELSE IF /\ pZone <= Len(s)
            /\ s[pZone] \in {"+", "-"}
            /\ DigitsAt(s, pZone + 1, 2)
            /\ DigitsAt(s, pOffMin, 2)
         THEN "offset" ELSE "none"

\* where the zone part ends
EndOfZone(zone, pZone, pOffMin) ==
    IF zone = "Z" THEN pZone + 1
    ELSE IF zone = "offset" THEN pOffMin + 2 ELSE pZone

\* where (?:\.\d+)? at pFrac ends
EndOfFraction(s, pFrac) ==
    IF pFrac <= Len(s) /\ s[pFrac] = "." /\ DigitsAt(s, pFrac + 1, 1)
    THEN SkipDigits(s, pFrac + 1) ELSE pFrac

\* the result of the scan, from the positions of its parts: the hour
\* follows the T, which follows the two digits of the day
ScanParts(s, pMonth, pDay, pMinute, pSecond, pZone, pOffMin, zone) ==
    [matched |-> /\ DigitsAt(s, 1, 4)
                 /\ DigitsAt(s, pMonth, 2)
                 /\ DigitsAt(s, pDay, 2)
                 /\ pDay + 2 <= Len(s) /\ s[pDay + 2] = "T"
                 /\ DigitsAt(s, pDay + 3, 2)
                 /\ DigitsAt(s, pMinute, 2)
                 /\ DigitsAt(s, pSecond, 2),
     pMonth |-> pMonth, pDay |-> pDay, pHour |-> pDay + 3,
     pMinute |-> pMinute, pSecond |-> pSecond, pFrac |-> pSecond + 2,
     pZone |-> pZone, pOffMin |-> pOffMin, zone |-> zone,
     pEnd |-> EndOfZone(zone, pZone, pOffMin)]

ScanZone(s, pMonth, pDay, pMinute, pSecond, pZone, pOffMin) ==
    ScanParts(s, pMonth, pDay, pMinute, pSecond, pZone, pOffMin,
              ZoneAt(s, pZone, pOffMin))

ScanOffset(s, pMonth, pDay, pMinute, pSecond, pZone) ==
    ScanZone(s, pMonth, pDay, pMinute, pSecond, pZone,
             SkipOptional(s, pZone + 3, ":"))

ScanFraction(s, pMonth, pDay, pMinute, pSecond) ==
    ScanOffset(s, pMonth, pDay, pMinute, pSecond,
               EndOfFraction(s, pSecond + 2))

ScanSecond(s, pMonth, pDay, pMinute) ==
    ScanFraction(s, pMonth, pDay, pMinute, SkipOptional(s, pMinute + 2, ":"))

ScanMinute(s, pMonth, pDay) ==
    ScanSecond(s, pMonth, pDay, SkipOptional(s, pDay + 5, ":"))

ScanDay(s, pMonth) ==
    ScanMinute(s, pMonth, SkipOptional(s, pMonth + 2, "-"))

\* ISO_DATETIME_REGEX on a text: whether it matches at the start, where the
\* parts lie and where the match ends
\*   /^(\d{4}-?\d{2}-?\d{2}T\d{2}:?\d{2}:?\d{2}(?:\.\d+)?(?:Z|[+-]\d{2}:?\d{2})?)/
ScanIsoDateTime(s) ==
    ScanDay(s, SkipOptional(s, 5, "-"))

MatchOf(name, r) ==
    IF r.matched THEN SubSeq(name, 1, r.pEnd - 1) ELSE <<>>

\* name.match(ISO_DATETIME_REGEX)?.[1], <<>> when there is no match
MatchIsoDateTime(name) ==
    MatchOf(name, ScanIsoDateTime(name))

\* name.match(YYYY_MM_DD_REGEX)?.[1]:  /^(\d{4}-\d{2}-\d{2})/
MatchYyyyMmDd(name) ==
    IF /\ Len(name) >= 10
       /\ DigitsAt(name, 1, 4) /\ name[5] = "-"
       /\ DigitsAt(name, 6, 2) /\ name[8] = "-"
       /\ DigitsAt(name, 9, 2)
    THEN SubSeq(name, 1, 10) ELSE <<>>

InvalidDateTime ==
    [valid |-> FALSE, ts |-> 0, offset |-> 0]

ValidDate(y, m, d) ==
    m \in 1..12 /\ d \in 1..DaysInMonth(y, m)

\* the fields DateTime.fromISO reads from a date-time text, and the offset
\* the text states (zone "none": it states none)
FieldsOf(text, r) ==
        [year   |-> TextToNat(SubSeq(text, 1, 4)),
         month  |-> TextToNat(SubSeq(text, r.pMonth, r.pMonth + 1)),
         day    |-> TextToNat(SubSeq(text, r.pDay, r.pDay + 1)),
         hour   |-> TextToNat(SubSeq(text, r.pHour, r.pHour + 1)),
         minute |-> TextToNat(SubSeq(text, r.pMinute, r.pMinute + 1)),
         second |-> TextToNat(SubSeq(text, r.pSecond, r.pSecond + 1)),
         zone   |-> r.zone,
         offset |-> IF r.zone = "offset"
                    THEN (IF text[r.pZone] = "-" THEN -1 ELSE 1)
                           * (TextToNat(SubSeq(text, r.pZone + 1, r.pZone + 2)) * 60
                                + TextToNat(SubSeq(text, r.pOffMin, r.pOffMin + 1)))
                    ELSE 0]

IsoFields(text) ==
    FieldsOf(text, ScanIsoDateTime(text))

ValidTime(f) ==
    /\ f.minute <= 59 /\ f.second <= 59
    /\ f.hour <= 23 \/ (f.hour = 24 /\ f.minute = 0 /\ f.second = 0)

\* the instant of the fields, read in the zone of offset `off`
InstantOf(f, off) ==
    DaysFromCivil(f.year, f.month, f.day) * 1440 + f.hour * 60 + f.minute - off

\* DateTime.fromISO(text) of a date-time text in the system zone `zone`: the
\* text's own offset fixes the instant, and without setZone the DateTime is
\* then moved to the system zone
DateTimeOfFields(f, zone) ==
    IF ValidDate(f.year, f.month, f.day) /\ ValidTime(f)
    THEN [valid |-> TRUE, offset |-> zone,
          ts |-> InstantOf(f, IF f.zone = "none" THEN zone ELSE f.offset)]
    ELSE InvalidDateTime

fromISODateTime(text, zone) ==
    DateTimeOfFields(IsoFields(text), zone)

\* DateTime.fromISO(text) of a YYYY-MM-DD text: the start of that day in
\* the system zone
StartOfDay(y, m, d, zone) ==
    IF ValidDate(y, m, d)
    THEN [valid |-> TRUE, ts |-> DaysFromCivil(y, m, d) * 1440 - zone,
          offset |-> zone]
    ELSE InvalidDateTime

fromISODate(text, zone) ==
    StartOfDay(TextToNat(SubSeq(text, 1, 4)), TextToNat(SubSeq(text, 6, 7)),
               TextToNat(SubSeq(text, 9, 10)), zone)

\* DateTime.fromJSDate(date)
fromJSDate(instant, zone) ==
    [valid |-> TRUE, ts |-> instant, offset |-> zone]

Segments(path) ==
    SplitOn(path, "/")

\* path.basename(path)
basename(path) ==
    Segments(path)[Len(Segments(path))]

\* path.basename(name, '.md'): the extension goes unless it is all of the name
StripMd(name) ==
    IF EndsWith(name, <<".", "md">>) /\ Len(name) > 2
    THEN SubSeq(name, 1, Len(name) - 2) ELSE name

\* null is [found |-> FALSE]
extractDateFromFilename(filename, zone) ==
    LET name      == StripMd(basename(filename))
        isoMatch  == MatchIsoDateTime(name)
        isoParsed == fromISODateTime(isoMatch, zone)
        dateMatch == MatchYyyyMmDd(name)
        parsed    == fromISODate(dateMatch, zone)
    IN  IF isoMatch # <<>> /\ isoParsed.valid
        THEN [found |-> TRUE, date |-> isoParsed]
        ELSE IF dateMatch # <<>> /\ parsed.valid
        THEN [found |-> TRUE, date |-> parsed]
        ELSE [found |-> FALSE, date |-> InvalidDateTime]

StartsWithDot(segment) ==
    segment # <<>> /\ segment[1] = "."

\* the pattern '**/*.md' on a relative path; without `dot` neither '**' nor
\* '*' matches a path segment that begins with a period
GlobMatches(path, dot) ==
    /\ EndsWith(basename(path), <<".", "md">>)
    /\ dot \/ \A i \in 1..Len(Segments(path)) : ~StartsWithDot(Segments(path)[i])

RECURSIVE ScanFiles(_, _)
ScanFiles(files, dot) ==
    IF files = <<>> THEN <<>>
    ELSE (IF GlobMatches(files[1].path, dot) THEN <<files[1]>> ELSE <<>>)
         \o ScanFiles(Tail(files), dot)

\* (mutant) the scan is made with dot: true
GlobScanDot(files) ==
    ScanFiles(files, TRUE)

\* glob.scan({ cwd: rootDir, dot: false, onlyFiles: true })
GlobScan(files) ==
    ScanFiles(files, FALSE)

\* relativePath.startsWith('.obsidian/') || relativePath === '.obsidian'
InObsidianDir(relativePath) ==
    \/ StartsWith(relativePath, <<".", "obsidian", "/">>)
    \/ relativePath = <<".", "obsidian">>

\* the body of the loop for a path that is not skipped
NoteMemory(file, zone) ==
    LET filename     == basename(file.path)
        filenameDate == extractDateFromFilename(filename, zone)
    IN  [source |-> <<"obsidian">>,
         memoryCreatedAt |-> IF filenameDate.found THEN filenameDate.date
                             ELSE fromJSDate(file.mtime, zone),
         title |-> StripMd(filename),
         metadata |-> [originalPath |-> file.path],
         content |-> file.content]

RECURSIVE NoteMemories(_, _)
NoteMemories(scanned, zone) ==
    IF scanned = <<>> THEN <<>>
    ELSE (IF InObsidianDir(scanned[1].path) THEN <<>>
          ELSE <<NoteMemory(scanned[1], zone)>>)
         \o NoteMemories(Tail(scanned), zone)

importObsidianNotes(files, zone) ==
    NoteMemories(GlobScan(files), zone)

(***************************************************************************)
(* Vaults of the model.                                                    *)
(***************************************************************************)
MD == <<".", "md">>

IsoName ==
    <<"2", "0", "2", "5", "-", "0", "9", "-", "1", "1", "T",
      "1", "4", ":", "3", "0", ":", "0", "0">>

\* all files were last modified at 2025-10-01T12:00Z
ModelMtime ==
    DaysFromCivil(2025, 10, 1) * 1440 + 720

\* and their status last changed at 2025-10-02T08:00Z
ModelCtime ==
    DaysFromCivil(2025, 10, 2) * 1440 + 480

MkFile(path) ==
    [path |-> path, mtime |-> ModelMtime, ctime |-> ModelCtime,
     content |-> <<"text">>]

FilePool ==
    { MkFile(<<"note">> \o MD),
      MkFile(<<".", "obsidian", "/", "config">> \o MD),
      MkFile(<<"projects", "/", ".", "obsidian", "/", "config">> \o MD),
      MkFile(<<".", "obsidian", "/">> \o IsoName \o MD),
      MkFile(<<".", "hidden">> \o MD),
      MkFile(<<"readme", ".", "txt">>),
      MkFile(IsoName \o MD),
      MkFile(IsoName \o <<"+", "0", "9", ":", "0", "0">> \o MD),
      MkFile(<<"2", "0", "2", "5", "0", "9", "1", "1", "T",
               "1", "4", "3", "0", "0", "0", "Z", " ", "call">> \o MD),
      MkFile(<<"2", "0", "2", "5", "-", "0", "9", "-", "1", "1",
               " ", "Meeting">> \o MD),
      MkFile(<<"projects", "/", "2", "0", "2", "5", "-", "1", "3", "-", "4", "5",
               "T", "1", "0", ":", "0", "0", ":", "0", "0">> \o MD),
      MkFile(<<"2", "0", "2", "5", "-", "0", "9", "-", "1", "1", "T",
               "2", "5", ":", "0", "0", ":", "0", "0", "Z">> \o MD) }

LocalZones ==
    {-480, 0, 120}

(***************************************************************************)
(* The memory table (src/unnamed/part_000, src/src/types.ts).              *)
(***************************************************************************)
\* DateTime.toISO(): 2025-09-11T14:30:00.000+02:00, the offset of UTC as Z
ValidToISO(dt) ==
    LET c == Civil(dt)
        a == IF dt.offset < 0 THEN -dt.offset ELSE dt.offset
    IN  padStart(NatToText(c.year), 4, "0") \o <<"-">>
          \o padStart(NatToText(c.month), 2, "0") \o <<"-">>
          \o padStart(NatToText(c.day), 2, "0") \o <<"T">>
          \o padStart(NatToText(c.hour), 2, "0") \o <<":">>
          \o padStart(NatToText(c.minute), 2, "0")
          \o <<":", "0", "0", ".", "0", "0", "0">>
          \o (IF dt.offset = 0 THEN <<"Z">>
              ELSE <<IF dt.offset < 0 THEN "-" ELSE "+">>
                     \o padStart(NatToText(a \div 60), 2, "0") \o <<":">>
                     \o padStart(NatToText(a % 60), 2, "0"))

\* of an invalid DateTime toISO() is null, which is stored as 'null'
toISO(dt) ==
    IF dt.valid THEN ValidToISO(dt) ELSE <<"null">>

\* the DateTime a stored text is read back as: the same instant, in the
\* offset the text states
DateTimeInOffset(f) ==
    [valid |-> TRUE, ts |-> InstantOf(f, f.offset), offset |-> f.offset]

DateTimeOfText(text) ==
    DateTimeInOffset(IsoFields(text))

\* the code unit of a character of an ISO text
CodeUnit(a) ==
    CASE a = "+" -> 43
      [] a = "-" -> 45
      [] a = "." -> 46
      [] IsDigit(a) -> 48 + DigitValue(a)
      [] a = ":" -> 58
      [] a = "T" -> 84
      [] a = "Z" -> 90

\* a < b, a = b or a > b (-1, 0, 1) as SQLite compares two TEXT values and
\* as localeCompare orders two day keys: by the first character that differs
RECURSIVE CompareText(_, _)
CompareText(a, b) ==
    IF a = <<>> /\ b = <<>> THEN 0
    ELSE IF a = <<>> THEN -1
    ELSE IF b = <<>> THEN 1
    ELSE IF CodeUnit(a[1]) < CodeUnit(b[1]) THEN -1
    ELSE IF CodeUnit(a[1]) > CodeUnit(b[1]) THEN 1
    ELSE CompareText(Tail(a), Tail(b))

\* one row of db.insertInto('memory').values(data): the DateTime is stored
\* as its ISO text, the id is generated
RowOf(memory, id) ==
    [id |-> id, source |-> memory.source, title |-> memory.title,
     metadata |-> memory.metadata, content |-> memory.content,
     memoryCreatedAt |-> toISO(memory.memoryCreatedAt)]

\* (mutant) a row of the same source and title is replaced
importDataUpsert(table, data) ==
    SelectSeq(table, LAMBDA row : \A i \in 1..Len(data) :
                  row.source # data[i].source \/ row.title # data[i].title)
      \o [i \in 1..Len(data) |-> RowOf(data[i], Len(table) + i)]

importData(table, data) ==
    table \o [i \in 1..Len(data) |-> RowOf(data[i], Len(table) + i)]

\* a selected row as a Memory
MemoryOf(row) ==
    [id |-> row.id, source |-> row.source, title |-> row.title,
     metadata |-> row.metadata, content |-> row.content,
     memoryCreatedAt |-> DateTimeOfText(row.memoryCreatedAt)]

\* selectFrom('memory').selectAll().orderBy('memoryCreatedAt', 'asc'): the
\* rows in ascending order of the TEXT column, rows of equal text in any order
getAllMemories(table) ==
    {[i \in 1..Len(table) |-> MemoryOf(rows[i])] :
        rows \in {r \in Reorderings(table) :
                    \A i \in 1..(Len(r) - 1) :
                        CompareText(r[i].memoryCreatedAt,
                                    r[i + 1].memoryCreatedAt) <= 0}}

(***************************************************************************)
(* NotebookLM exporter (src/src/exporters/notebooklm-export.ts).           *)
(***************************************************************************)
MonthNames ==
    <<"January", "February", "March", "April", "May", "June", "July",
      "August", "September", "October", "November", "December">>

\* date.toFormat('HH:mm')
FormatTime(dt) ==
    padStart(NatToText(Civil(dt).hour), 2, "0") \o <<":">>
      \o padStart(NatToText(Civil(dt).minute), 2, "0")

\* date.toFormat('yyyy')
FormatYear(dt) ==
    padStart(NatToText(Civil(dt).year), 4, "0")

serializeMemory(memory) ==
    Join(<< <<"##", " ">> \o memory.title,
            <<"Time", ":", " ">> \o FormatTime(memory.memoryCreatedAt) >>
           \o (IF memory.content # <<>> THEN <<memory.content>> ELSE <<>>),
         <<"\n">>)

formatDay(dateStr, dayMemories) ==
    <<"<date>">> \o dateStr \o <<"</date>", "\n">>
      \o Join([i \in 1..Len(dayMemories) |-> serializeMemory(dayMemories[i])],
              <<"\n", "\n", "---", "\n", "\n">>)
      \o <<"\n">>

\* String.prototype.replace(' ', ''): the first blank goes
RemoveFirstBlank(s) ==
    IF \A i \in 1..Len(s) : s[i] # " " THEN s
    ELSE LET i == CHOOSE k \in 1..Len(s) :
                    s[k] = " " /\ \A l \in 1..(k - 1) : s[l] # " "
         IN  SubSeq(s, 1, i - 1) \o SubSeq(s, i + 1, Len(s))

\* (mutant) the month name and the year stay apart: 'March 2025'
getFileKeyNoReplace(date, iv) ==
    IF iv = "year" THEN FormatYear(date)
    ELSE <<MonthNames[Civil(date).month], " ">> \o FormatYear(date)

getFileKey(date, iv) ==
    IF iv = "year" THEN FormatYear(date)
    ELSE RemoveFirstBlank(<<MonthNames[Civil(date).month], " ">> \o FormatYear(date))

\* date.toFormat('yyyy-MM-dd')
getDayKey(date) ==
    FormatYear(date) \o <<"-">>
      \o padStart(NatToText(Civil(date).month), 2, "0") \o <<"-">>
      \o padStart(NatToText(Civil(date).day), 2, "0")

\* (mutant) a day keeps only the record seen last
RECURSIVE GroupMemoriesByDayLast(_, _)
GroupMemoriesByDayLast(list, memoriesByDay) ==
    IF list = <<>> THEN memoriesByDay
    ELSE GroupMemoriesByDayLast(Tail(list),
             MapSet(memoriesByDay, getDayKey(list[1].memoryCreatedAt),
                    <<list[1]>>))

RECURSIVE GroupMemoriesByDay(_, _)
GroupMemoriesByDay(list, memoriesByDay) ==
    IF list = <<>> THEN memoriesByDay
    ELSE LET dayKey   == getDayKey(list[1].memoryCreatedAt)
             existing == IF MapHas(memoriesByDay, dayKey)
                         THEN MapGet(memoriesByDay, dayKey) ELSE <<>>
         IN  GroupMemoriesByDay(Tail(list),
                 MapSet(memoriesByDay, dayKey, Append(existing, list[1])))

RECURSIVE GroupDaysByFile(_, _, _, _)
GroupDaysByFile(memoriesByDay, daysByFile, iv, zone) ==
    IF memoriesByDay = <<>> THEN daysByFile
    ELSE LET dayKey  == memoriesByDay[1].key
             date    == fromISODate(dayKey, zone)
             fileKey == getFileKey(date, iv)
             days    == IF MapHas(daysByFile, fileKey)
                        THEN MapGet(daysByFile, fileKey) ELSE <<>>
         IN  GroupDaysByFile(Tail(memoriesByDay),
                 MapSet(daysByFile, fileKey,
                        MapSet(days, dayKey, memoriesByDay[1].value)),
                 iv, zone)

\* [...days.entries()].sort(([a], [b]) => a.localeCompare(b))
RECURSIVE InsertDay(_, _)
InsertDay(sorted, day) ==
    IF sorted = <<>> THEN <<day>>
    ELSE IF CompareText(sorted[1].key, day.key) <= 0
         THEN <<sorted[1]>> \o InsertDay(Tail(sorted), day)
         ELSE <<day>> \o sorted

\* (mutant) the days stay in the order of the map
SortDaysNone(days, sorted) ==
    sorted \o days

RECURSIVE SortDays(_, _)
SortDays(days, sorted) ==
    IF days = <<>> THEN sorted
    ELSE SortDays(Tail(days), InsertDay(sorted, days[1]))

OutputDir == <<"out">>

\* one iteration of `for (const [fileKey, days] of daysByFile)`: the
\* writeFile call it makes
FileWrite(fileKey, days) ==
    LET sortedDays == SortDays(days, <<>>)
    IN  [path |-> OutputDir \o <<"/">> \o fileKey \o <<".", "txt">>,
         content |-> Join([i \in 1..Len(sortedDays) |->
                             formatDay(sortedDays[i].key, sortedDays[i].value)],
                          <<"\n">>)]

\* the writeFile calls of exportToNotebookLM for the fetched memories
exportToNotebookLM(list, iv, zone) ==
    IF Len(list) = 0 THEN <<>>
    ELSE LET daysByFile ==
               GroupDaysByFile(GroupMemoriesByDay(list, <<>>), <<>>, iv, zone)
         IN  [i \in 1..Len(daysByFile) |->
                FileWrite(daysByFile[i].key, daysByFile[i].value)]

\* writeFile(path, content): the file is created or replaced
writeFile(files, w) ==
    [q \in (DOMAIN files) \cup {w.path} |->
        IF q = w.path THEN w.content ELSE files[q]]

RECURSIVE WriteAll(_, _)
WriteAll(files, ws) ==
    IF ws = <<>> THEN files
    ELSE WriteAll(writeFile(files, ws[1]), Tail(ws))

(***************************************************************************)
(* Stores of the model.                                                    *)
(***************************************************************************)
MkMemory(title, y, m, d, h, mi, off, content) ==
    [source |-> <<"test">>, title |-> <<title>>, metadata |-> <<>>,
     content |-> content,
     memoryCreatedAt |-> [valid |-> TRUE, offset |-> off,
                          ts |-> DaysFromCivil(y, m, d) * 1440 + h * 60 + mi - off]]

MemoryPool ==
    { MkMemory("A", 2025, 9, 11, 10, 0, 120, <<"a1", "\n", "a2">>),
      MkMemory("B", 2025, 9, 11, 5, 0, -480, <<"b">>),
      MkMemory("C", 2025, 9, 12, 7, 5, 120, <<>>),
      MkMemory("D", 2025, 3, 15, 9, 0, 0, <<"d">>),
      MkMemory("E", 2024, 12, 31, 23, 30, 60, <<"e">>) }

Batches ==
    InjectiveSeqs(MemoryPool, 2) \ {<<>>}

\* outputDir before the export: an earlier export's file and another file
InitialFiles ==
    [q \in {OutputDir \o <<"/", "2", "0", "2", "5", ".", "txt">>,
            OutputDir \o <<"/", "notes", ".", "txt">>} |-> <<"old">>]

EmptyStore ==
    /\ store = <<>>
    /\ fetched = <<>>
    /\ outFiles = InitialFiles
    /\ writes = <<>>
    /\ interval = "none"

(***************************************************************************)
(* Obsidian importer on Date (src/src/importers/obsidian-import.ts).       *)
(***************************************************************************)
\* Date.prototype.toISOString(): the instant in UTC
toISOString(instant) ==
    toISO([valid |-> TRUE, ts |-> instant, offset |-> 0])

\* the scanned text is in the date-time string format of ECMAScript,
\* YYYY-MM-DDTHH:mm:ss(.sss)?(Z|+HH:mm|-HH:mm)?
IsDateTimeStringFormat(r) ==
    /\ r.pMonth = 6 /\ r.pDay = 9 /\ r.pMinute = 15 /\ r.pSecond = 18
    /\ r.pZone = r.pFrac \/ r.pZone = r.pFrac + 4
    /\ r.zone = "offset" => r.pOffMin = r.pZone + 4

\* the time values new Date(text) can have for the fields of a text: one in
\* the string format has its instant (the system zone when it states no
\* offset), one with a field out of range has NaN; what a text outside the
\* format, or a day past the end of its month, gives is left to the engine
TimeOfFields(f, inFormat, zone) ==
    IF f.month \notin 1..12 \/ f.day \notin 1..31 \/ ~ValidTime(f) THEN {NaN}
    ELSE {Num(InstantOf(f, IF f.zone = "none" THEN zone ELSE f.offset))}
         \cup (IF inFormat /\ ValidDate(f.year, f.month, f.day) THEN {} ELSE {NaN})

\* new Date(isoMatch[1])
DateOfDateTime(text, zone) ==
    TimeOfFields(IsoFields(text), IsDateTimeStringFormat(ScanIsoDateTime(text)), zone)

\* new Date(dateMatch[1]): a date without a time is read in UTC
DateOfDate(text) ==
    TimeOfFields([year |-> TextToNat(SubSeq(text, 1, 4)),
                  month |-> TextToNat(SubSeq(text, 6, 7)),
                  day |-> TextToNat(SubSeq(text, 9, 10)),
                  hour |-> 0, minute |-> 0, second |-> 0,
                  zone |-> "Z", offset |-> 0], TRUE, 0)

Found(times) ==
    {[found |-> TRUE, time |-> t.value] : t \in {x \in times : ~x.nan}}

\* the possible results for the time values of the two parses
ExtractedFrom(isoTimes, dateTimes) ==
    Found(isoTimes)
      \cup (IF NaN \in isoTimes THEN Found(dateTimes) ELSE {})
      \cup (IF NaN \in isoTimes /\ NaN \in dateTimes
            THEN {[found |-> FALSE, time |-> 0]} ELSE {})

MatchedTimes(match, times) ==
    IF match = <<>> THEN {NaN} ELSE times

\* extractDateFromFilename on Date: the possible results, null is
\* [found |-> FALSE]
extractDateFromFilenameDate(filename, zone) ==
    ExtractedFrom(
        MatchedTimes(MatchIsoDateTime(StripMd(basename(filename))),
                     DateOfDateTime(MatchIsoDateTime(StripMd(basename(filename))), zone)),
        MatchedTimes(MatchYyyyMmDd(StripMd(basename(filename))),
                     DateOfDate(MatchYyyyMmDd(StripMd(basename(filename))))))

\* the body of the loop for a path that is not skipped
NoteMemoryDate(file, filenameDate) ==
    [source |-> <<"obsidian", ":">> \o file.path,
     memoryCreatedAt |-> toISOString(IF filenameDate.found THEN filenameDate.time
                                     ELSE file.ctime),
     title |-> StripMd(basename(file.path)),
     metadata |-> [originalPath |-> file.path, importedFrom |-> <<"obsidian">>],
     content |-> file.content]

RECURSIVE NoteMemoriesDate(_, _)
NoteMemoriesDate(scanned, zone) ==
    IF scanned = <<>> THEN {<<>>}
    ELSE IF InObsidianDir(scanned[1].path) THEN NoteMemoriesDate(Tail(scanned), zone)
    ELSE {<<NoteMemoryDate(scanned[1], filenameDate)>> \o rest :
            filenameDate \in extractDateFromFilenameDate(basename(scanned[1].path), zone),
            rest \in NoteMemoriesDate(Tail(scanned), zone)}

\* importObsidianNotes of obsidian-import.ts: the possible results
importObsidianNotesDate(files, zone) ==
    NoteMemoriesDate(GlobScan(files), zone)

(***************************************************************************)
(* The command line program (src/unnamed/part_002).                        *)
(***************************************************************************)
\* what `await db.insertInto('memory').values(data).execute()` can do: the
\* one INSERT statement stores all the rows, or it is rejected and stores
\* none
InsertOutcomes(table, data) ==
    {[ok |-> TRUE, table |-> importData(table, data)],
     [ok |-> FALSE, table |-> table]}

\* (mutant) close() is not called
closeSkipped(ev) ==
    ev

\* await close()
close(ev) ==
    Append(ev, "close")

\* the directories --obsidian can name
CliVaults ==
    { <<>>,
      <<MkFile(<<"note">> \o MD),
        MkFile(<<"2", "0", "2", "5", "-", "0", "9", "-", "1", "1",
                 " ", "Meeting">> \o MD)>> }

\* the files --daylio can name: two days, no day, a day at +05:30, and an
\* archive whose JSON does not parse
CliArchives ==
    { [shape |-> "ok", customMoods |-> ModelMoods, tags |-> ModelTags,
       dayEntries |-> <<MkEntry(1, 2025, 8, 11, 14, 0, 7200000, 1, <<"note1">>, <<1, 2>>),
                        MkEntry(8, 2024, 11, 31, 22, 15, 0, 2, <<"note8">>, <<2, 9, 1>>)>>],
      [shape |-> "ok", customMoods |-> ModelMoods, tags |-> ModelTags,
       dayEntries |-> <<>>],
      [shape |-> "ok", customMoods |-> ModelMoods, tags |-> ModelTags,
       dayEntries |-> <<MkEntry(7, 2025, 0, 5, 8, 0, 19800000, 1, <<"note7">>, <<1>>)>>],
      [shape |-> "badJson", customMoods |-> ModelMoods, tags |-> ModelTags,
       dayEntries |-> <<MkEntry(1, 2025, 8, 11, 14, 0, 7200000, 1, <<"note1">>, <<1, 2>>)>>] }

\* what importObsidianNotes returns for each of these directories and how
\* importDaylioBackup can end for each of these files
ObsidianImports ==
    [v \in CliVaults, z \in LocalZones |-> importObsidianNotes(v, z)]

DaylioImports ==
    [a \in CliArchives |-> importDaylioBackupCall(a)]

\* no run of the program was started
NoCli ==
    /\ pc = "start"
    /\ options = [obsidian |-> FALSE, daylio |-> FALSE]
    /\ code = 0
    /\ exitCode = -1
    /\ events = <<>>
    /\ runs = 0
    /\ committed = <<>>

(***************************************************************************)
(* Actions.                                                                *)
(***************************************************************************)
ImportDaylioBackup ==
    /\ status = "idle"
    /\ \E outcome \in importDaylioBackupCall(archive) :
         /\ memories' = outcome.value
         /\ status' = IF outcome.threw THEN "error" ELSE "ok"
    /\ UNCHANGED <<archive, moodArgs, moodResult, vault, localZone>>
    /\ UNCHANGED storeVars
    /\ UNCHANGED cliVars

CallGetMoodName ==
    /\ status = "idle"
    /\ moodResult' =
         getMoodName(moodArgs.moodId, BuildMoodLookup(moodArgs.customMoods, <<>>))
    /\ status' = "ok"
    /\ UNCHANGED <<archive, memories, moodArgs, vault, localZone>>
    /\ UNCHANGED storeVars
    /\ UNCHANGED cliVars

ImportObsidianNotes ==
    /\ status = "idle"
    /\ memories' = importObsidianNotes(vault, localZone)
    /\ status' = "ok"
    /\ UNCHANGED <<archive, moodArgs, moodResult, vault, localZone>>
    /\ UNCHANGED storeVars
    /\ UNCHANGED cliVars

ImportObsidianNotesDate ==
    /\ status = "idle"
    /\ memories' \in importObsidianNotesDate(vault, localZone)
    /\ status' = "okDate"
    /\ UNCHANGED <<archive, moodArgs, moodResult, vault, localZone>>
    /\ UNCHANGED storeVars
    /\ UNCHANGED cliVars

NoArchive ==
    [shape |-> "ok", customMoods |-> <<>>, tags |-> <<>>, dayEntries |-> <<>>]

NoMoodArgs ==
    [moodId |-> 0, customMoods |-> <<>>]

InitDaylio ==
    /\ archive \in Archives
    /\ memories = <<>>
    /\ status = "idle"
    /\ moodArgs = NoMoodArgs
    /\ moodResult = <<>>
    /\ vault = <<>>
    /\ localZone = 0
    /\ EmptyStore
    /\ NoCli

NextDaylio ==
    ImportDaylioBackup

SpecDaylio ==
    InitDaylio /\ [][NextDaylio]_vars

InitMood ==
    /\ archive = NoArchive
    /\ memories = <<>>
    /\ status = "idle"
    /\ moodArgs \in [moodId : 1..3, customMoods : MoodTables]
    /\ moodResult = <<>>
    /\ vault = <<>>
    /\ localZone = 0
    /\ EmptyStore
    /\ NoCli

NextMood ==
    CallGetMoodName

SpecMood ==
    InitMood /\ [][NextMood]_vars

InitObsidian ==
    /\ archive = NoArchive
    /\ memories = <<>>
    /\ status = "idle"
    /\ moodArgs = NoMoodArgs
    /\ moodResult = <<>>
    /\ vault \in InjectiveSeqs(FilePool, MaxFiles)
    /\ localZone \in LocalZones
    /\ EmptyStore
    /\ NoCli

NextObsidian ==
    \/ ImportObsidianNotes
    \/ ImportObsidianNotesDate

SpecObsidian ==
    InitObsidian /\ [][NextObsidian]_vars

ImportData ==
    /\ status = "idle"
    /\ \E data \in Batches :
         /\ Len(store) + Len(data) <= MaxStore
         /\ store' = importData(store, data)
    /\ UNCHANGED <<status, fetched, outFiles, writes, interval, localZone>>
    /\ UNCHANGED importVars
    /\ UNCHANGED cliVars

GetAllMemories ==
    /\ status = "idle"
    /\ fetched' \in getAllMemories(store)
    /\ status' = "fetched"
    /\ UNCHANGED <<store, outFiles, writes, interval, localZone>>
    /\ UNCHANGED importVars
    /\ UNCHANGED cliVars

ExportToNotebookLM ==
    /\ status = "idle"
    /\ \E iv \in {"month", "year"} :
         /\ interval' = iv
         /\ fetched' \in getAllMemories(store)
         /\ writes' = exportToNotebookLM(fetched', iv, localZone)
         /\ outFiles' = WriteAll(outFiles, writes')
    /\ status' = "exported"
    /\ UNCHANGED <<store, localZone>>
    /\ UNCHANGED importVars
    /\ UNCHANGED cliVars

InitStore ==
    /\ archive = NoArchive
    /\ memories = <<>>
    /\ status = "idle"
    /\ moodArgs = NoMoodArgs
    /\ moodResult = <<>>
    /\ vault = <<>>
    /\ localZone \in LocalZones
    /\ EmptyStore
    /\ NoCli

NextStore ==
    \/ ImportData
    \/ GetAllMemories
    \/ ExportToNotebookLM

SpecStore ==
    InitStore /\ [][NextStore]_vars

\* the module's top level (lines 18-36): the options are parsed, the output
\* directory made and the database opened; an error here is uncaught, the
\* runtime prints it and the process ends with status 1
Setup ==
    /\ pc \in {"start", "exited"}
    /\ runs < MaxRuns
    /\ runs' = runs + 1
    /\ options' \in [obsidian : BOOLEAN, daylio : BOOLEAN]
    /\ vault' \in (IF options'.obsidian THEN CliVaults ELSE {<<>>})
    /\ archive' \in (IF options'.daylio THEN CliArchives ELSE {NoArchive})
    /\ memories' = <<>>
    /\ code' = 0
    /\ \/ /\ events' = <<"open">>
          /\ exitCode' = -1
          /\ pc' = "main"
       \/ /\ events' = <<"throw", "print", "exit">>
          /\ exitCode' = 1
          /\ pc' = "exited"
    /\ UNCHANGED <<status, moodArgs, moodResult, localZone, committed>>
    /\ UNCHANGED storeVars

\* main, lines 39-42
MainImportObsidian ==
    /\ pc = "main"
    /\ IF options.obsidian
       THEN /\ memories' = ObsidianImports[vault, localZone]
            /\ pc' = "insertObsidian"
       ELSE /\ memories' = memories
            /\ pc' = "daylio"
    /\ UNCHANGED <<archive, status, moodArgs, moodResult, vault, localZone>>
    /\ UNCHANGED <<options, code, exitCode, events, runs, committed>>
    /\ UNCHANGED storeVars

\* main, lines 44 and 53: await importData(db, data)
InsertData(next) ==
    \E out \in InsertOutcomes(store, memories) :
        /\ store' = out.table
        /\ IF out.ok
           THEN /\ events' = Append(events, "insert")
                /\ committed' = Append(committed, memories)
                /\ pc' = next
           ELSE /\ events' = events \o <<"insert", "throw">>
                /\ committed' = committed
                /\ pc' = "catch"

MainInsertObsidian ==
    /\ pc = "insertObsidian"
    /\ InsertData("daylio")
    /\ UNCHANGED <<fetched, outFiles, writes, interval, status, localZone>>
    /\ UNCHANGED <<options, code, exitCode, runs>>
    /\ UNCHANGED importVars

\* main, lines 48-51 and, without --daylio, lines 57-58
MainImportDaylio ==
    /\ pc = "daylio"
    /\ IF ~options.daylio
       THEN /\ memories' = memories
            /\ events' = events
            /\ pc' = "then"
       ELSE \E outcome \in DaylioImports[archive] :
              /\ memories' = outcome.value
              /\ events' = IF outcome.threw THEN Append(events, "throw")
                           ELSE events
              /\ pc' = IF outcome.threw THEN "catch" ELSE "insertDaylio"
    /\ UNCHANGED <<archive, status, moodArgs, moodResult, vault, localZone>>
    /\ UNCHANGED <<options, code, exitCode, runs, committed>>
    /\ UNCHANGED storeVars

\* main, lines 53-58
MainInsertDaylio ==
    /\ pc = "insertDaylio"
    /\ InsertData("then")
    /\ UNCHANGED <<fetched, outFiles, writes, interval, status, localZone>>
    /\ UNCHANGED <<options, code, exitCode, runs>>
    /\ UNCHANGED importVars

\* .catch((error) => { console.error(error); return 1 })
Catch ==
    /\ pc = "catch"
    /\ events' = Append(events, "print")
    /\ code' = 1
    /\ pc' = "then"
    /\ UNCHANGED <<options, exitCode, runs, committed, status, localZone>>
    /\ UNCHANGED importVars
    /\ UNCHANGED storeVars

\* .then(async (code) => { await close() ...
ThenClose ==
    /\ pc = "then"
    /\ events' = close(events)
    /\ pc' = "closed"
    /\ UNCHANGED <<options, code, exitCode, runs, committed, status, localZone>>
    /\ UNCHANGED importVars
    /\ UNCHANGED storeVars

\* ... process.exit(code) })
ThenExit ==
    /\ pc = "closed"
    /\ events' = Append(events, "exit")
    /\ exitCode' = code
    /\ pc' = "exited"
    /\ UNCHANGED <<options, code, runs, committed, status, localZone>>
    /\ UNCHANGED importVars
    /\ UNCHANGED storeVars

InitCli ==
    /\ archive = NoArchive
    /\ memories = <<>>
    /\ status = "idle"
    /\ moodArgs = NoMoodArgs
    /\ moodResult = <<>>
    /\ vault = <<>>
    /\ localZone = 0
    /\ EmptyStore
    /\ NoCli

NextCli ==
    \/ Setup
    \/ MainImportObsidian
    \/ MainInsertObsidian
    \/ MainImportDaylio
    \/ MainInsertDaylio
    \/ Catch
    \/ ThenClose
    \/ ThenExit

\* the runtime runs every continuation that is ready
SpecCli ==
    InitCli /\ [][NextCli]_vars /\ WF_vars(NextCli)

(***************************************************************************)
(* Properties.                                                             *)
(***************************************************************************)
Imported ==
    status = "ok" /\ archive.shape = "ok"

\* the positions in the archive's dayEntries of the entries of a civil day
EntriesOfDay(y, m0, d) ==
    {i \in 1..Len(archive.dayEntries) :
        /\ archive.dayEntries[i].year = y
        /\ archive.dayEntries[i].month = m0
        /\ archive.dayEntries[i].day = d}

\* the text is YYYY-MM-DD and denotes the day (y, 1-indexed m, d)
KeyDenotes(key, y, m, d) ==
    /\ Len(key) = 10
    /\ key[5] = "-" /\ key[8] = "-"
    /\ \A i \in {1, 2, 3, 4, 6, 7, 9, 10} : IsDigit(key[i])
    /\ TextToNat(SubSeq(key, 1, 4)) = y
    /\ TextToNat(SubSeq(key, 6, 7)) = m
    /\ TextToNat(SubSeq(key, 9, 10)) = d

EntryTime(i) ==
    archive.dayEntries[i].hour * 60 + archive.dayEntries[i].minute

\* a <= b as JavaScript compares numbers: false when either is NaN
LessOrEqual(a, b) ==
    ~a.nan /\ ~b.nan /\ a.value <= b.value

\* C1: the records importDaylioBackup returns are in non-decreasing order
\* of the instant (toMillis) of memoryCreatedAt, as the repository's test
\* 'memories are sorted by date' asserts of each adjacent pair.
C1_SortedByInstant ==
    Imported =>
        \A i \in 1..(Len(memories) - 1) :
            LessOrEqual(toMillis(memories[i].memoryCreatedAt),
                        toMillis(memories[i + 1].memoryCreatedAt))

\* C5: the content lines of a day record are the lines of the day's
\* entries in ascending order of hour*60+minute, entries of equal time in
\* the order of the archive's dayEntries list.
C5_IntraDayStableOrder ==
    Imported =>
        \A k \in 1..Len(memories) :
            \E y \in 2024..2025, m0 \in 0..11, d \in 1..31 :
                /\ KeyDenotes(memories[k].metadata.dayKey, y, m0 + 1, d)
                /\ LET idx   == EntriesOfDay(y, m0, d)
                       lines == SplitOn(memories[k].content, "\n")
                   IN  /\ Len(lines) = Cardinality(idx)
                       /\ \E p \in [1..Len(lines) -> idx] :
                            /\ \A a, b \in 1..Len(lines) :
                                 a < b =>
                                   \/ EntryTime(p[a]) < EntryTime(p[b])
                                   \/ /\ EntryTime(p[a]) = EntryTime(p[b])
                                      /\ p[a] < p[b]
                            /\ \A a \in 1..Len(lines) :
                                 lines[a] =
                                   formatEntry(archive.dayEntries[p[a]],
                                       BuildMoodLookup(archive.customMoods, <<>>),
                                       BuildTagLookup(archive.tags, <<>>))

\* a day whose entries the sort had to reorder and that has a tie: the
\* archive lists a later entry before an earlier one, and two of equal time
C5_Witness ==
    /\ Imported
    /\ \E i, j, k \in 1..Len(archive.dayEntries) :
         /\ i < j /\ j < k
         /\ DayKeyOf(archive.dayEntries[i]) = DayKeyOf(archive.dayEntries[j])
         /\ DayKeyOf(archive.dayEntries[j]) = DayKeyOf(archive.dayEntries[k])
         /\ EntryTime(i) > EntryTime(j)
         /\ EntryTime(j) = EntryTime(k)
    /\ Len(memories) = 1
    /\ memories[1].metadata.entryCount = <<"3">>

\* C6: every day-entry's day-key is the fixed-width YYYY-MM-DD text of its
\* year, its 0-indexed month plus 1 and its day; every returned record has
\* such a key as metadata.dayKey and the title "Daylio: " followed by it.
C6_DayKeyFormat ==
    Imported =>
        /\ \A i \in 1..Len(archive.dayEntries) :
             \E k \in 1..Len(memories) :
                KeyDenotes(memories[k].metadata.dayKey,
                           archive.dayEntries[i].year,
                           archive.dayEntries[i].month + 1,
                           archive.dayEntries[i].day)
        /\ \A k \in 1..Len(memories) :
             /\ \E i \in 1..Len(archive.dayEntries) :
                  KeyDenotes(memories[k].metadata.dayKey,
                             archive.dayEntries[i].year,
                             archive.dayEntries[i].month + 1,
                             archive.dayEntries[i].day)
             /\ memories[k].title =
                  <<"Daylio", ":", " ">> \o memories[k].metadata.dayKey

\* the entry year=2025, month=8, day=11 was imported under "2025-09-11",
\* beside an entry of a one-digit day
C6_Witness ==
    /\ Imported
    /\ \E i \in 1..Len(archive.dayEntries) :
         /\ archive.dayEntries[i].year = 2025
         /\ archive.dayEntries[i].month = 8
         /\ archive.dayEntries[i].day = 11
    /\ \E i \in 1..Len(archive.dayEntries) : archive.dayEntries[i].day < 10
    /\ \E k \in 1..Len(memories) :
         memories[k].metadata.dayKey =
           <<"2", "0", "2", "5", "-", "0", "9", "-", "1", "1">>

\* the definition of a mood id in a mood table: the last one of that id
MoodDefinition(customMoods, moodId) ==
    customMoods[CHOOSE i \in 1..Len(customMoods) :
                  /\ customMoods[i].id = moodId
                  /\ \A j \in (i + 1)..Len(customMoods) :
                       customMoods[j].id # moodId]

MoodListed(customMoods, moodId) ==
    \E i \in 1..Len(customMoods) : customMoods[i].id = moodId

PredefinedName(n) ==
    CASE n = 1 -> <<"Rad">>
      [] n = 2 -> <<"Good">>
      [] n = 3 -> <<"Meh">>
      [] n = 4 -> <<"Bad">>
      [] n = 5 -> <<"Awful">>
      [] OTHER -> <<"Unknown">>

MoodCalled ==
    status = "ok" /\ moodArgs # NoMoodArgs

\* C7 as stated: an id not in the table gives 'Unknown'; a non-empty custom
\* name is the result whatever the predefined-name reference; otherwise the
\* name of the reference in 1:Rad .. 5:Awful, or 'Unknown'.
C7_MoodNameAsStated ==
    MoodCalled =>
        IF ~MoodListed(moodArgs.customMoods, moodArgs.moodId)
        THEN moodResult = <<"Unknown">>
        ELSE LET def == MoodDefinition(moodArgs.customMoods, moodArgs.moodId)
             IN  IF def.custom_name # <<>>
                 THEN moodResult = def.custom_name
                 ELSE moodResult = PredefinedName(def.predefined_name_id)

\* C7 amended: the custom name is the result when it holds a character that
\* is not whitespace; an empty or all-whitespace custom name gives the name
\* of the predefined-name reference (1:Rad .. 5:Awful, else 'Unknown').
C7_MoodName ==
    MoodCalled =>
        IF ~MoodListed(moodArgs.customMoods, moodArgs.moodId)
        THEN moodResult = <<"Unknown">>
        ELSE LET def == MoodDefinition(moodArgs.customMoods, moodArgs.moodId)
             IN  IF \E i \in 1..Len(def.custom_name) :
                        def.custom_name[i] \notin {" ", "\n"}
                 THEN moodResult = def.custom_name
                 ELSE moodResult = PredefinedName(def.predefined_name_id)

\* an all-whitespace custom name was resolved through the predefined table
C7_Witness ==
    /\ MoodCalled
    /\ MoodListed(moodArgs.customMoods, moodArgs.moodId)
    /\ MoodDefinition(moodArgs.customMoods, moodArgs.moodId).custom_name = <<" ">>
    /\ moodResult = <<"Meh">>

KnownTagIds ==
    {archive.tags[i].id : i \in 1..Len(archive.tags)}

TagNameOf(id) ==
    archive.tags[CHOOSE i \in 1..Len(archive.tags) : archive.tags[i].id = id].name

IsKnownTag(id) ==
    id \in KnownTagIds

\* the line the specification expects of an entry: an unknown mood reads 'Unknown',
\* the tag list holds the names of the known tags in reference order
ExpectedLine(e) ==
    LET known  == SelectSeq(e.tags, IsKnownTag)
        names  == [i \in 1..Len(known) |-> TagNameOf(known[i])]
        mood   == IF MoodListed(archive.customMoods, e.mood)
                  THEN getMoodName(e.mood, BuildMoodLookup(archive.customMoods, <<>>))
                  ELSE <<"Unknown">>
        head   == mood \o <<":", " ">> \o e.note
    IN  IF Len(known) = 0 THEN trim(head)
        ELSE head \o <<" ", "(">> \o Join(names, <<",", " ">>) \o <<")">>

HasUnknownReference(e) ==
    \/ ~MoodListed(archive.customMoods, e.mood)
    \/ \E t \in 1..Len(e.tags) : ~IsKnownTag(e.tags[t])

\* C8: an entry with an unknown mood or tag reference does not fail the
\* import; it is counted in its day's entryCount and gives one content line,
\* with 'Unknown' for an unknown mood and unknown tags left out, the known
\* tags in the order of the entry's references.
C8_UnknownReferences ==
    (status # "idle" /\ archive.shape = "ok") =>
        /\ status = "ok"
        /\ \A i \in 1..Len(archive.dayEntries) :
             LET e == archive.dayEntries[i]
             IN  HasUnknownReference(e) =>
                   \E k \in 1..Len(memories) :
                      /\ KeyDenotes(memories[k].metadata.dayKey,
                                    e.year, e.month + 1, e.day)
                      /\ memories[k].metadata.entryCount =
                           IntToText(Cardinality(EntriesOfDay(e.year, e.month, e.day)))
                      /\ Len(SplitOn(memories[k].content, "\n")) =
                           Cardinality(EntriesOfDay(e.year, e.month, e.day))
                      /\ \E l \in 1..Len(SplitOn(memories[k].content, "\n")) :
                           SplitOn(memories[k].content, "\n")[l] = ExpectedLine(e)

\* an import of an entry with an unknown mood, one whose only tag is
\* unknown and one with an unknown tag between two known tags
C8_Witness ==
    /\ Imported
    /\ \E i \in 1..Len(archive.dayEntries) :
         ~MoodListed(archive.customMoods, archive.dayEntries[i].mood)
    /\ \E i \in 1..Len(archive.dayEntries) :
         archive.dayEntries[i].tags = <<9>>
    /\ \E i \in 1..Len(archive.dayEntries) :
         archive.dayEntries[i].tags = <<2, 9, 1>>
    /\ \E k \in 1..Len(memories) :
         memories[k].content =
           <<"Meh", ":", " ", "note8", " ", "(", "gym", ",", " ", "work", ")">>

Scanned ==
    status = "ok" /\ vault # <<>>

FileOfMemory(k) ==
    CHOOSE i \in 1..Len(vault) : vault[i].path = memories[k].metadata.originalPath

\* the DateTime the specification gives a file name that begins with an ISO-8601
\* date-time: the exact instant, in the zone the name states (the local
\* zone when it states none)
IsoDateTimeWithParsedZone(text, zone) ==
    LET f   == IsoFields(text)
        off == IF f.zone = "none" THEN zone ELSE f.offset
    IN  [valid |-> TRUE, ts |-> InstantOf(f, off), offset |-> off]

ParsesAsIsoDateTime(name) ==
    /\ ScanIsoDateTime(name).matched
    /\ LET f == IsoFields(MatchIsoDateTime(name))
       IN  ValidDate(f.year, f.month, f.day) /\ ValidTime(f)

ParsesAsDate(name) ==
    /\ MatchYyyyMmDd(name) # <<>>
    /\ ValidDate(TextToNat(SubSeq(name, 1, 4)), TextToNat(SubSeq(name, 6, 7)),
                 TextToNat(SubSeq(name, 9, 10)))

\* C9: memoryCreatedAt of each returned note is (a) the exact instant of
\* the ISO-8601 date-time its file name begins with, in the zone parsed from
\* the name, else (b) midnight of the bare YYYY-MM-DD the name begins with,
\* in the local zone, else (c) the file's last-modified time; it is valid.
C9_TimestampStrategies ==
    Scanned =>
        \A k \in 1..Len(memories) :
            LET file == vault[FileOfMemory(k)]
                name == StripMd(basename(file.path))
                at   == memories[k].memoryCreatedAt
            IN  /\ at.valid
                /\ IF ParsesAsIsoDateTime(name)
                   THEN at = IsoDateTimeWithParsedZone(MatchIsoDateTime(name), localZone)
                   ELSE IF ParsesAsDate(name)
                   THEN at = [valid |-> TRUE,
                              ts |-> DaysFromCivil(TextToNat(SubSeq(name, 1, 4)),
                                                   TextToNat(SubSeq(name, 6, 7)),
                                                   TextToNat(SubSeq(name, 9, 10))) * 1440
                                       - localZone,
                              offset |-> localZone]
                   ELSE at = [valid |-> TRUE, ts |-> file.mtime, offset |-> localZone]

ScannedDate ==
    status = "okDate" /\ vault # <<>>

\* the path lies inside a directory named .obsidian
InsideObsidian(path) ==
    \E i \in 1..(Len(Segments(path)) - 1) : Segments(path)[i] = <<".", "obsidian">>

\* C10: no file whose path lies inside a '.obsidian' directory, at whatever
\* depth, is in the output of importObsidianNotes.
C10_ObsidianDirExcluded ==
    Scanned \/ ScannedDate =>
        \A k \in 1..Len(memories) :
            ~InsideObsidian(memories[k].metadata.originalPath)

\* a vault with projects/.obsidian/config.md beside a note that was imported
C10_Witness ==
    /\ Scanned
    /\ \E i \in 1..Len(vault) :
         vault[i].path = <<"projects", "/", ".", "obsidian", "/", "config", ".", "md">>
    /\ Len(memories) = 1
    /\ memories[1].metadata.originalPath = <<"note", ".", "md">>

\* the file is one the import takes: a .md file, neither it nor a directory
\* above it hidden
IsNote(i) ==
    /\ EndsWith(vault[i].path, <<".", "md">>)
    /\ \A j \in 1..Len(Segments(vault[i].path)) :
         ~StartsWithDot(Segments(vault[i].path)[j])

\* the position in the vault of the k-th such file
NoteAt(k) ==
    CHOOSE i \in 1..Len(vault) :
        IsNote(i) /\ Cardinality({j \in 1..(i - 1) : IsNote(j)}) = k - 1

\* C11: importObsidianNotes returns one record per matching file, in
\* traversal order; its source is 'obsidian', its title the file name
\* without '.md', its metadata.originalPath the relative path and its
\* content the file's text.
C11_RecordFields ==
    Scanned \/ ScannedDate =>
        /\ Len(memories) = Cardinality({i \in 1..Len(vault) : IsNote(i)})
        /\ \A k \in 1..Len(memories) :
             /\ memories[k].source = <<"obsidian">>
             /\ memories[k].title \o <<".", "md">> = basename(vault[NoteAt(k)].path)
             /\ memories[k].metadata.originalPath = vault[NoteAt(k)].path
             /\ memories[k].content = vault[NoteAt(k)].content

Fetched ==
    status = "fetched"

Exported ==
    status = "exported"

\* C2: getAllMemories returns every stored record exactly once, in
\* non-decreasing order of the instant its memoryCreatedAt denotes, whatever
\* UTC offsets the stored values carry.
C2_OrderedByInstant ==
    Fetched =>
        /\ Len(fetched) = Len(store)
        /\ \A r \in 1..Len(store) :
             Cardinality({i \in 1..Len(fetched) : fetched[i].id = store[r].id}) = 1
        /\ \A i \in 1..Len(fetched) : \A j \in 1..Len(fetched) :
             i < j => fetched[i].memoryCreatedAt.ts <= fetched[j].memoryCreatedAt.ts

\* the <date> blocks of the export: (write, position of the opening tag)
DateBlocks ==
    {b \in UNION {{<<w, i>> : i \in 1..Len(writes[w].content)} :
                    w \in 1..Len(writes)} :
        writes[b[1]].content[b[2]] = "<date>"}

BlockEnd(b) ==
    LET text  == writes[b[1]].content
        later == {j \in (b[2] + 1)..Len(text) : text[j] = "<date>"}
    IN  IF later = {} THEN Len(text)
        ELSE (CHOOSE j \in later : \A l \in later : j <= l) - 1

\* the text between <date> and </date>
BlockKey(b) ==
    LET text   == writes[b[1]].content
        closes == {j \in (b[2] + 1)..BlockEnd(b) : text[j] = "</date>"}
    IN  IF closes = {} THEN <<>>
        ELSE SubSeq(text, b[2] + 1,
                    (CHOOSE j \in closes : \A l \in closes : j <= l) - 1)

BlockBody(b) ==
    SubSeq(writes[b[1]].content, b[2] + Len(BlockKey(b)) + 2, BlockEnd(b))

Occurrences(text, atom) ==
    Cardinality({i \in 1..Len(text) : text[i] = atom})

\* how many records with the title the block holds
HeadingsIn(body, title) ==
    Cardinality({i \in 1..(Len(body) - 2) :
                   body[i] = "##" /\ body[i + 1] = " " /\ <<body[i + 2]>> = title})

\* the fetched records that fall on the calendar day of the m-th one
SameDay(m) ==
    LET c == Civil(fetched[m].memoryCreatedAt)
    IN  {n \in 1..Len(fetched) :
           LET e == Civil(fetched[n].memoryCreatedAt)
           IN  e.year = c.year /\ e.month = c.month /\ e.day = c.day}

BlocksOfDay(m) ==
    LET c == Civil(fetched[m].memoryCreatedAt)
    IN  {b \in DateBlocks : KeyDenotes(BlockKey(b), c.year, c.month, c.day)}

\* C3: one export holds, for each calendar day with k fetched records,
\* exactly one <date> block in all the files written; the block holds the k
\* records of that day and no other, with k-1 separator lines; every block
\* is the block of a day with records, so every fetched record is
\* serialized exactly once.
C3_OneBlockPerDay ==
    Exported =>
        /\ \A m \in 1..Len(fetched) :
             /\ Cardinality(BlocksOfDay(m)) = 1
             /\ \A b \in BlocksOfDay(m) :
                  /\ Occurrences(BlockBody(b), "---") = Cardinality(SameDay(m)) - 1
                  /\ Occurrences(BlockBody(b), "##") = Cardinality(SameDay(m))
                  /\ \A n \in 1..Len(fetched) :
                       HeadingsIn(BlockBody(b), fetched[n].title) =
                         Cardinality({o \in SameDay(m) :
                                        fetched[o].title = fetched[n].title})
        /\ \A b \in DateBlocks : \E m \in 1..Len(fetched) : b \in BlocksOfDay(m)

\* two records of one day and a record of another month went out under the
\* 'month' selector
C3_Witness ==
    /\ Exported
    /\ interval = "month"
    /\ Len(writes) = 2
    /\ \E m \in 1..Len(fetched) :
         /\ Cardinality(SameDay(m)) = 2
         /\ \E b \in BlocksOfDay(m) : Occurrences(BlockBody(b), "---") = 1

\* the path the specification gives the file of a record's day
ExpectedPath(m) ==
    LET c    == Civil(fetched[m].memoryCreatedAt)
        year == padStart(NatToText(c.year), 4, "0")
    IN  OutputDir \o <<"/">>
          \o (IF interval = "year" THEN year ELSE <<MonthNames[c.month]>> \o year)
          \o <<".", "txt">>

ExpectedPaths ==
    {ExpectedPath(m) : m \in 1..Len(fetched)}

C4_WitnessOverwrite ==
    /\ Exported
    /\ interval = "year"
    /\ \E i \in 1..Len(writes) :
         /\ writes[i].path \in DOMAIN InitialFiles
         /\ outFiles[writes[i].path] # InitialFiles[writes[i].path]

\* an export of the empty store
C4_WitnessEmpty ==
    Exported /\ fetched = <<>> /\ writes = <<>>

RECURSIVE Flatten(_)
Flatten(batches) ==
    IF batches = <<>> THEN <<>> ELSE batches[1] \o Flatten(Tail(batches))

\* the row holds the record
Holds(row, record) ==
    /\ row.source = record.source
    /\ row.title = record.title
    /\ row.metadata = record.metadata
    /\ row.content = record.content
    /\ row.memoryCreatedAt = toISO(record.memoryCreatedAt)

OptionsGiven ==
    (IF options.obsidian THEN 1 ELSE 0) + (IF options.daylio THEN 1 ELSE 0)

\* the store holds the records of the batches of the imports that succeeded,
\* each as often as it was imported, under distinct ids; a run that ended
\* well made one insert per import
StoreHoldsCommitted ==
    /\ Len(store) = Len(Flatten(committed))
    /\ \A i \in 1..Len(store) : Holds(store[i], Flatten(committed)[i])
    /\ \A i \in 1..Len(store) : \A j \in 1..Len(store) :
         i # j => store[i].id # store[j].id
    /\ Occurrences(events, "insert") <= OptionsGiven
    /\ pc = "exited" /\ exitCode = 0 =>
         Occurrences(events, "insert") = OptionsGiven

\* a step changes the store only by appending the whole batch of the import
\* at hand, and a step into the failure handler leaves the store alone
InsertOnly ==
    /\ store' # store =>
         /\ pc \in {"insertObsidian", "insertDaylio"}
         /\ Len(store') = Len(store) + Len(memories)
         /\ SubSeq(store', 1, Len(store)) = store
         /\ \A i \in 1..Len(memories) : Holds(store'[Len(store) + i], memories[i])
    /\ pc' = "catch" => store' = store

\* C12: after any sequence of import runs the store holds exactly the
\* records of the batches of the imports that succeeded, duplicates
\* retained; an import that fails inserts nothing, and an insert appends its
\* complete batch without changing or removing a stored record.
C12_AlwaysInsert ==
    [](StoreHoldsCommitted) /\ [][InsertOnly]_vars

\* the second run on a database imported a vault the first run had imported
\* (its records are stored twice) and then failed on its Daylio archive
C12_Witness ==
    /\ pc = "exited"
    /\ runs = 2
    /\ exitCode = 1
    /\ "insert" \in {events[i] : i \in 1..Len(events)}
    /\ Len(committed) = 2
    /\ committed[1] = committed[2]
    /\ Len(store) = 2 * Len(committed[1])
    /\ Len(store) > 0

EventAt(name) ==
    {i \in 1..Len(events) : events[i] = name}

\* the exit of a run: the status is 1 after an uncaught failure, which was
\* printed, and 0 otherwise
ExitCodeTellsFailure ==
    pc = "exited" =>
        /\ events[Len(events)] = "exit"
        /\ Occurrences(events, "exit") = 1
        /\ exitCode = (IF EventAt("throw") = {} THEN 0 ELSE 1)
        /\ \A t \in EventAt("throw") : \E q \in EventAt("print") : t < q

\* close() is called once, after the last store operation and before the exit
ClosedOnce ==
    /\ Occurrences(events, "close") <= 1
    /\ \A c \in EventAt("close") : \A i \in EventAt("insert") : i < c
    /\ pc = "exited" =>
         /\ Occurrences(events, "close") = 1
         /\ \A c \in EventAt("close") : \A e \in EventAt("exit") : c < e

\* C13 as stated: every run exits with 0 or 1 by the failure of main, and in
\* every run the close handle is invoked exactly once.
C13_ExitAndCloseAsStated ==
    ExitCodeTellsFailure /\ ClosedOnce

\* C13: every run in which the database was opened reaches its exit; the
\* status is 0 if main completed and 1 after an uncaught failure, which was
\* printed; the close handle is invoked exactly once, after the last store
\* operation and before the exit.  A run whose set-up fails ends with
\* status 1 without main and without the close handle.
C13_ExitAndClose ==
    /\ [](ExitCodeTellsFailure)
    /\ [](EventAt("open") # {} => ClosedOnce)
    /\ [](EventAt("open") = {} => EventAt("close") = {} /\ EventAt("insert") = {})
    /\ (pc = "main" ~> pc = "exited")

\* a run failed after a store operation, closed the database and exited
C13_Witness ==
    /\ pc = "exited"
    /\ exitCode = 1
    /\ EventAt("insert") # {}
    /\ EventAt("close") # {}

\* the civil days the archive's entries fall on
DaysOfArchive ==
    {<<archive.dayEntries[i].year, archive.dayEntries[i].month,
       archive.dayEntries[i].day>> : i \in 1..Len(archive.dayEntries)}

RECURSIVE SumOfCounts(_)
SumOfCounts(list) ==
    IF list = <<>> THEN 0
    ELSE TextToNat(list[1].metadata.entryCount) + SumOfCounts(Tail(list))

\* the text is the decimal numeral of n
IsDecimalOf(text, n) ==
    /\ text # <<>>
    /\ \A i \in 1..Len(text) : IsDigit(text[i])
    /\ Len(text) > 1 => text[1] # "0"
    /\ TextToNat(text) = n

\* C14: a successful import returns exactly one record per distinct day-key
\* of the archive; the record's metadata.entryCount is the decimal numeral
\* of the number of entries with that key and its content has one line per
\* such entry; the entryCounts add up to the number of day-entries; an
\* empty dayEntries list gives an empty result.
C14_OneRecordPerDay ==
    Imported =>
        /\ Len(memories) = Cardinality(DaysOfArchive)
        /\ \A day \in DaysOfArchive :
             \E k \in 1..Len(memories) :
                /\ KeyDenotes(memories[k].metadata.dayKey,
                              day[1], day[2] + 1, day[3])
                /\ IsDecimalOf(memories[k].metadata.entryCount,
                               Cardinality(EntriesOfDay(day[1], day[2], day[3])))
                /\ Len(SplitOn(memories[k].content, "\n"))
                     = Cardinality(EntriesOfDay(day[1], day[2], day[3]))
        /\ SumOfCounts(memories) = Len(archive.dayEntries)
        /\ archive.dayEntries = <<>> => memories = <<>>

\* three entries on two days: one record of two entries and one of one
C14_Witness ==
    /\ Imported
    /\ Len(archive.dayEntries) = 3
    /\ Len(memories) = 2
    /\ \E k \in 1..2 : memories[k].metadata.entryCount = <<"2">>

\* the empty archive imported without error
C14_WitnessEmpty ==
    Imported /\ archive.dayEntries = <<>> /\ memories = <<>>

\* C15: every record importDaylioBackup returns has a valid memoryCreatedAt
\* in a fixed offset zone of a whole number of hours, whatever the
\* timeZoneOffset of the day's first entry (+05:30 and negative offsets
\* included).
C15_ValidWholeHourZone ==
    Imported =>
        \A k \in 1..Len(memories) :
            /\ memories[k].memoryCreatedAt.valid
            /\ memories[k].memoryCreatedAt.offset % 60 = 0

\* the position in dayEntries of the entry that is first in the day group
\* of record k after the intra-day sort
IsFirstOfDay(f, k) ==
    /\ f \in 1..Len(archive.dayEntries)
    /\ DayKeyOf(archive.dayEntries[f]) = memories[k].metadata.dayKey
    /\ \A i \in 1..Len(archive.dayEntries) :
         DayKeyOf(archive.dayEntries[i]) = memories[k].metadata.dayKey =>
            \/ EntryTime(f) < EntryTime(i)
            \/ EntryTime(f) = EntryTime(i) /\ f <= i

\* record k has the instant and the offset of entry f
TimestampFrom(f, k) ==
    /\ toMillis(memories[k].memoryCreatedAt)
         = Num(archive.dayEntries[f].datetime)
    /\ memories[k].memoryCreatedAt.offset
         = OffsetMinutes(archive.dayEntries[f].timeZoneOffset)

\* C16: the instant of a day record's memoryCreatedAt is the datetime of
\* the entry that is first in its day group after the intra-day sort, and
\* its zone offset is the one of that entry's timeZoneOffset.
C16_TimestampOfFirstEntry ==
    Imported =>
        \A k \in 1..Len(memories) :
            \E f \in 1..Len(archive.dayEntries) :
                IsFirstOfDay(f, k) /\ TimestampFrom(f, k)

\* the archive's offsets are whole numbers of hours
WholeHourOffsets ==
    \A i \in 1..Len(archive.dayEntries) :
        OffsetMinutes(archive.dayEntries[i].timeZoneOffset) % 60 = 0

\* the position of the first </date> from position j on
RECURSIVE CloseAfter(_, _)
CloseAfter(text, j) ==
    IF j > Len(text) \/ text[j] = "</date>" THEN j
    ELSE CloseAfter(text, j + 1)

\* the keys of the <date> blocks of a text from position i on, in the
\* order of the text
RECURSIVE DateKeysFrom(_, _)
DateKeysFrom(text, i) ==
    IF i > Len(text) THEN <<>>
    ELSE IF text[i] = "<date>"
         THEN <<SubSeq(text, i + 1, CloseAfter(text, i + 1) - 1)>>
                \o DateKeysFrom(text, i + 1)
         ELSE DateKeysFrom(text, i + 1)

\* the day number of the calendar day a YYYY-MM-DD key denotes
KeyDay(key) ==
    DaysFromCivil(TextToNat(SubSeq(key, 1, 4)), TextToNat(SubSeq(key, 6, 7)),
                  TextToNat(SubSeq(key, 9, 10)))

\* each key is lexicographically greater than the one before it, and
\* denotes a later day
StrictlyAscending(keys) ==
    \A i \in 1..(Len(keys) - 1) :
        /\ CompareText(keys[i], keys[i + 1]) < 0
        /\ KeyDay(keys[i]) < KeyDay(keys[i + 1])

AllFilesAscending(ws) ==
    \A w \in 1..Len(ws) : StrictlyAscending(DateKeysFrom(ws[w].content, 1))

\* the day keys of the records of a list, in the order of the list
DayKeysOf(list) ==
    [i \in 1..Len(list) |-> getDayKey(list[i].memoryCreatedAt)]

\* C17: in every file an export writes, the <date> blocks are in strictly
\* ascending order of their day keys (so no key comes twice), which is the
\* order of the days they denote; the same holds of the files the export
\* writes for the fetched records in any other order.
C17_DayBlocksAscending ==
    Exported =>
        /\ AllFilesAscending(writes)
        /\ \A list \in Reorderings(fetched) :
             AllFilesAscending(exportToNotebookLM(list, interval, localZone))

\* records of three days went into one file, and some order of the fetched
\* records has a later day before an earlier one
C17_Witness ==
    /\ Exported
    /\ interval = "year"
    /\ \E w \in 1..Len(writes) : Len(DateKeysFrom(writes[w].content, 1)) = 3
    /\ \E list \in Reorderings(fetched) :
         CompareText(DayKeysOf(list)[1], DayKeysOf(list)[2]) > 0

\* C18: a format error is fatal and leaves no partial result: for an
\* archive without a backup.daylio entry, with a payload that is no base64
\* or no JSON, or with a document lacking dayEntries, customMoods or tags,
\* the call of importDaylioBackup fails and returns no record, whatever
\* entries the document holds.
C18_FormatErrorIsFatal ==
    (status # "idle" /\ archive.shape # "ok") =>
        status = "error" /\ memories = <<>>

\* a failed import of a document that holds entries but no customMoods
C18_Witness ==
    /\ status = "error"
    /\ archive.shape = "noCustomMoods"
    /\ Len(archive.dayEntries) = 2

\* each kind of format error has failed an import of a document that holds
\* entries
C18_WitnessNoBackupFile ==
    status = "error" /\ archive.shape = "noBackupFile" /\ archive.dayEntries # <<>>

C18_WitnessBadBase64 ==
    status = "error" /\ archive.shape = "badBase64" /\ archive.dayEntries # <<>>

C18_WitnessBadJson ==
    status = "error" /\ archive.shape = "badJson" /\ archive.dayEntries # <<>>

C18_WitnessNoDayEntries ==
    status = "error" /\ archive.shape = "noDayEntries" /\ archive.dayEntries # <<>>

C18_WitnessNoTags ==
    status = "error" /\ archive.shape = "noTags" /\ archive.dayEntries # <<>>

====
